---------------------------- MODULE Spec2Model ----------------------------
(***************************************************************************)
(* ShairportSyncMediaPlayer (custom_components/shairport_sync/             *)
(* media_player.py): the MQTT topic router and its subscriptions, the      *)
(* volume envelope and the closed-loop set-volume algorithm.               *)
(*                                                                         *)
(* Decibel values are fixed point, in tenths of a dB (-15.0 dB is -150).   *)
(* Every payload the model delivers has at most one fractional digit, so   *)
(* the values and the comparisons against the 0.5 dB tolerance are exact.  *)
(* An optional field (None in the code) is <<>>; a set one is <<v>>.       *)
(* Payloads are strings; they are split and parsed character by character. *)
(***************************************************************************)
EXTENDS Integers, Sequences, FiniteSets, TLC

VARIABLES
    player_state,   \* self._player_state
    title,          \* self._title
    artist,         \* self._artist
    album,          \* self._album
    media_image,    \* self._media_image
    volume_db,      \* self._volume_db
    min_db,         \* self._min_db
    max_db,         \* self._max_db
    ui_pending,     \* state a transport coroutine will set once its publish returns
    sv_pc,          \* async_set_volume_level: "none", "sleep" (in asyncio.sleep) or "done"
    sv_target,      \* its local target_db
    sv_attempts,    \* its local attempts
    sv_count,       \* number of commands this request has published so far
    sv_dirs,        \* the distinct command tokens among them
    sv_outcome,     \* how the request ended
    sv_initial,     \* self._volume_db when the request passed its precondition check
    sim_step,       \* simulated receiver: dB moved per command (0: no simulated receiver)
    sim_requests,   \* simulated receiver: set-volume requests made so far
    subscriptions,  \* self._subscriptions: the handles appended, in order
    acquired,       \* the handles async_subscribe has returned
    released,       \* the handles called by the removal, in order
    life,           \* "new", "subscribing", "added", "failed" or "removed"
    fresh,          \* metadata attributes assigned since the status was last set to IDLE
    last,           \* the message or request handled by the last step
    writes,         \* async_write_ha_state calls made by the last step
    sent,           \* command tokens published on the remote topic by the last step
    raised          \* the last step's handler raised to its caller

entity == <<player_state, title, artist, album, media_image,
            volume_db, min_db, max_db>>

sim == <<sim_step, sim_requests>>

hass == <<subscriptions, acquired, released, life>>

task == <<sv_pc, sv_target, sv_attempts, sv_count, sv_dirs, sv_outcome, sv_initial>>

vars == <<player_state, title, artist, album, media_image, volume_db, min_db,
          max_db, ui_pending, sv_pc, sv_target, sv_attempts, sv_count, sv_dirs,
          sv_outcome, sv_initial, sim_step, sim_requests, subscriptions,
          acquired, released, life, fresh, last, writes, sent, raised>>

Abs(x) == IF x < 0 THEN 0 - x ELSE x

None == <<>>

Some(v) == <<v>>

Val(o) == o[1]

-----------------------------------------------------------------------------
(* Text: str.split(",") and float()                                        *)

Char(s, i) == SubSeq(s, i, i)

Digits == {"0", "1", "2", "3", "4", "5", "6", "7", "8", "9"}

DigitVal(c) ==
    CASE c = "0" -> 0 [] c = "1" -> 1 [] c = "2" -> 2 [] c = "3" -> 3
      [] c = "4" -> 4 [] c = "5" -> 5 [] c = "6" -> 6 [] c = "7" -> 7
      [] c = "8" -> 8 [] c = "9" -> 9

\* Index of the first sep in s; Len(s) + 1 when there is none.
Find(s, sep) ==
    IF \E i \in 1..Len(s) : Char(s, i) = sep
    THEN CHOOSE i \in 1..Len(s) :
            Char(s, i) = sep /\ \A j \in 1..(i - 1) : Char(s, j) # sep
    ELSE Len(s) + 1

\* Where the separators of s are, in order, with 0 before and Len(s) + 1 after.
Cuts(s, sep) ==
    LET at == {i \in 1..Len(s) : Char(s, i) = sep}
    IN  [n \in 0..(Cardinality(at) + 1) |->
            IF n = 0 THEN 0
            ELSE IF n = Cardinality(at) + 1 THEN Len(s) + 1
            ELSE CHOOSE i \in at : Cardinality({j \in at : j < i}) = n - 1]

\* payload.split(","): "" gives one empty field, "a,,b" three.
Split(s, sep) ==
    LET cuts == Cuts(s, sep)
    IN  [n \in 1..(Cardinality(DOMAIN cuts) - 1) |->
            SubSeq(s, cuts[n - 1] + 1, cuts[n] - 1)]

AllDigits(s) == \A i \in 1..Len(s) : Char(s, i) \in Digits

\* The number the first n characters of the digit string s spell.
RECURSIVE NatUpTo(_, _)
NatUpTo(s, n) ==
    IF n = 0 THEN 0 ELSE 10 * NatUpTo(s, n - 1) + DigitVal(Char(s, n))

NatOf(s) == NatUpTo(s, Len(s))

Unsigned(s) == IF Len(s) > 0 /\ Char(s, 1) \in {"-", "+"} THEN Tail(s) ELSE s

IntPart(s) == SubSeq(Unsigned(s), 1, Find(Unsigned(s), ".") - 1)

FracPart(s) == SubSeq(Unsigned(s), Find(Unsigned(s), ".") + 1, Len(Unsigned(s)))

\* float(s) raises ValueError: the decimal grammar [sign] digits [. digits]
\* with at least one digit (exponents, inf, nan and blanks are not delivered).
FloatRaises(s) ==
    \/ ~AllDigits(IntPart(s))
    \/ ~AllDigits(FracPart(s))
    \/ Len(IntPart(s)) + Len(FracPart(s)) = 0

\* float(s) in tenths; digits after the first fractional one are dropped.
Float(s) ==
    LET mag == 10 * NatOf(IntPart(s))
               + (IF Len(FracPart(s)) > 0 THEN DigitVal(Char(FracPart(s), 1)) ELSE 0)
    IN  IF Len(s) > 0 /\ Char(s, 1) = "-" THEN 0 - mag ELSE mag


-----------------------------------------------------------------------------
(* Constants of the entity                                                 *)

IDLE == "idle"

PLAYING == "playing"

PAUSED == "paused"

MediaPlayerState == {IDLE, PLAYING, PAUSED}

\* tolerance = 0.5 dB, in tenths
tolerance == 5

max_attempts == 50

\* the floor _tapered_percent_to_db falls back to, -30.0 dB in tenths
FloorDb == -300

\* the two topics volume_updated is subscribed to, relative to the base topic
volume_topics == {"ssnc/pvol", "volume"}

\* topic_map: TopLevelTopic member -> callback
topic_map ==
    [t \in {"PLAY_START", "PLAY_RESUME", "PLAY_END", "PLAY_FLUSH", "ACTIVE_END",
            "ARTIST", "ALBUM", "TITLE", "COVER"} |->
        CASE t \in {"PLAY_START", "PLAY_RESUME"} -> "play_started"
          [] t \in {"PLAY_END", "PLAY_FLUSH"} -> "play_ended"
          [] t = "ACTIVE_END" -> "active_ended"
          [] t = "ARTIST" -> "set_metadata_artist"
          [] t = "ALBUM" -> "set_metadata_album"
          [] t = "TITLE" -> "set_metadata_title"
          [] t = "COVER" -> "artwork_updated"]

\* The topics in the order _subscribe_to_topics subscribes to them: the list
\* volume_topics, then topic_map.items() in insertion order.
SubscriptionOrder ==
    <<"ssnc/pvol", "volume", "PLAY_START", "PLAY_RESUME", "PLAY_END", "PLAY_FLUSH",
      "ACTIVE_END", "ARTIST", "ALBUM", "TITLE", "COVER">>

Range(seq) == {seq[i] : i \in DOMAIN seq}

\* The handles the broker holds: returned by async_subscribe and not called
\* since. A handle is named by the topic it subscribes.
Active == acquired \ Range(released)

\* The callback a delivered message reaches: the subscriptions made by
\* _subscribe_to_topics.
Callback(topic) ==
    IF topic \notin Active THEN "unsubscribed"
    ELSE IF topic \in volume_topics THEN "volume_updated"
    ELSE IF topic \in DOMAIN topic_map THEN topic_map[topic]
    ELSE "unsubscribed"

Msg(op, topic, payload) == [op |-> op, topic |-> topic, payload |-> payload, arg |-> 0]

Req(op, arg) == [op |-> op, topic |-> "", payload |-> "", arg |-> arg]

-----------------------------------------------------------------------------
(* State after __init__, and once the entity has been added to the host    *)

InitEntity ==
    /\ player_state = IDLE
    /\ title = None
    /\ artist = None
    /\ album = None
    /\ media_image = None
    /\ volume_db = None
    /\ min_db = None
    /\ max_db = None

InitTask ==
    /\ ui_pending = None
    /\ sv_pc = "none"
    /\ sv_target = None
    /\ sv_attempts = 0
    /\ sv_count = 0
    /\ sv_dirs = {}
    /\ sv_outcome = "none"
    /\ sv_initial = None

InitTrace ==
    /\ fresh = {}
    /\ last = Req("init", 0)
    /\ writes = 0
    /\ sent = <<>>
    /\ raised = FALSE

\* No subscription yet: the entity has not been added to the host.
InitHass ==
    /\ subscriptions = <<>>
    /\ acquired = {}
    /\ released = <<>>
    /\ life = "new"

\* The entity once async_added_to_hass has returned: every topic subscribed.
Added ==
    /\ subscriptions = SubscriptionOrder
    /\ acquired = Range(SubscriptionOrder)
    /\ released = <<>>
    /\ life = "added"

Init == InitEntity /\ InitTask /\ InitTrace /\ Added /\ sim_step = 0 /\ sim_requests = 0

-----------------------------------------------------------------------------
(* Messages the receiver sends                                             *)

\* Largest number of comma-separated fields in a generated volume report.
MaxFields == 5

\* What a field of a volume report may hold: three levels and a non-number.
Tokens == {"-30.0", "-15.0", "0.0", "x"}

RECURSIVE Join(_)
Join(fields) ==
    IF Len(fields) = 0 THEN ""
    ELSE IF Len(fields) = 1 THEN fields[1]
    ELSE fields[1] \o "," \o Join(Tail(fields))

\* Reports of n fields: the airplay volume, up to three fields drawn from
\* Tokens, and trailing fields the handler does not read.
ReportsWith(n) ==
    { Join(<<"12.0">> \o mid \o [i \in 1..(n - 4) |-> "1"]) :
        mid \in [1..(IF n - 1 < 3 THEN n - 1 ELSE 3) -> Tokens] }

\* Spellings float() accepts or rejects beyond those of Tokens.
OddReports == {"", ",,,", "9,-15,-30,0", "9,+1.5,-30.,.5", "9,-,-30.0,0.0", "9,1.5.0,-30.0,0.0",
               "9,7000.0,-30.0,0.0"}

VolumePayloads == OddReports \cup UNION { ReportsWith(n) : n \in 1..MaxFields }

StatusTopics == {"PLAY_START", "PLAY_RESUME", "PLAY_END", "PLAY_FLUSH", "ACTIVE_END"}

MetadataTopics == {"ARTIST", "ALBUM", "TITLE"}

\* Payloads by metadata topic.
MetaPayloads(topic) ==
    CASE topic = "TITLE" -> {"Song A", "Song B"}
      [] topic = "ARTIST" -> {"Artist"}
      [] topic = "ALBUM" -> {"Album"}

CoverPayloads == {"JFIF"}

\* The statements of the try block that depend on the payload alone:
\* split(","), the length test and the three float() calls in order.
ParseReport(payload) ==
    LET parts == Split(payload, ",")
        ok1 == Len(parts) >= 4 /\ ~FloatRaises(parts[2])
        ok2 == ok1 /\ ~FloatRaises(parts[3])
        ok3 == ok2 /\ ~FloatRaises(parts[4])
    IN  [fields |-> Len(parts),
         ok1 |-> ok1, ok2 |-> ok2, ok3 |-> ok3,
         volume |-> IF ok1 THEN Float(parts[2]) ELSE 0,
         lowest |-> IF ok2 THEN Float(parts[3]) ELSE 0,
         highest |-> IF ok3 THEN Float(parts[4]) ELSE 0]

\* The reports delivered beside the status and metadata traffic: a complete
\* one and one that fails at its third field.
RouterReports == {"12.0,-15.0,-30.0,0.0", "12.0,-20.0,x,0.0"}

\* The reports delivered while a set-volume request runs: levels on the edge
\* of the tolerance of a target and just outside one, a report with another
\* envelope, and one that fails at its fourth field.
LoopReports == {"12.0,-20.5,-30.0,0.0", "12.0,-0.6,-30.0,0.0",
                "12.0,-25.0,-40.0,-10.0", "12.0,-15.0,-30.0,x"}

\* The fractions the UI requests, in thousandths: 0.0, 0.01, 0.1 and 1.0.
Fractions == {0, 10, 100, 1000}

\* Set-volume requests made of one simulated receiver, one after the other.
MaxSimRequests == 1

\* The steps of the simulated receivers: 0.5 dB and 1.0 dB per command.
SimSteps == {5, 10}

DigitChar(d) == SubSeq("0123456789", d + 1, d + 1)

RECURSIVE NatStr(_)
NatStr(n) == IF n < 10 THEN DigitChar(n) ELSE NatStr(n \div 10) \o DigitChar(n % 10)

\* A level in tenths as the receiver prints it, e.g. -150 as "-15.0".
FmtDb(db) ==
    (IF db < 0 THEN "-" ELSE "") \o NatStr(Abs(db) \div 10) \o "." \o DigitChar(Abs(db) % 10)

\* The simulated receiver's report of a level: its envelope is -60.0 .. 0.0.
SimReport(db) == Join(<<"0.0", FmtDb(db), FmtDb(-600), FmtDb(0)>>)

\* The levels a simulated receiver can be at: every half dB from one step
\* below its lowest level to one step above its highest.
SimLevels == {db \in (-610)..10 : db % 5 = 0}

SimReports == {SimReport(db) : db \in SimLevels}

\* The receiver's first report: where the volume starts (-2.0, -20.5, -50.0).
SimInitialReports == {SimReport(db) : db \in {-20, -205, -500}}

\* The fractions requested of the simulated receiver: 0.0, 0.1 and 1.0.
SimFractions == {0, 100, 1000}

AllReports == VolumePayloads \cup RouterReports \cup LoopReports \cup SimReports

\* ParseReport of every report delivered, computed once.
ParseTable == [payload \in AllReports |-> ParseReport(payload)]

Parsed(payload) == ParseTable[payload]

-----------------------------------------------------------------------------
(* Topic router                                                            *)

\* _set_state with the artwork left in place on IDLE.
SetState_keeps_artwork(state) ==
    /\ player_state' = state
    /\ title' = IF state = IDLE THEN None ELSE title
    /\ artist' = IF state = IDLE THEN None ELSE artist
    /\ album' = IF state = IDLE THEN None ELSE album
    /\ media_image' = media_image
    /\ fresh' = IF state = IDLE THEN {} ELSE fresh
    /\ writes' = 1

\* _set_state with the title left in place on IDLE.
SetState_keeps_title(state) ==
    /\ player_state' = state
    /\ title' = title
    /\ artist' = IF state = IDLE THEN None ELSE artist
    /\ album' = IF state = IDLE THEN None ELSE album
    /\ media_image' = IF state = IDLE THEN None ELSE media_image
    /\ fresh' = IF state = IDLE THEN {} ELSE fresh
    /\ writes' = 1

\* _set_state: the status, the metadata cleared on IDLE, one notification.
SetState(state) ==
    /\ player_state' = state
    /\ title' = IF state = IDLE THEN None ELSE title
    /\ artist' = IF state = IDLE THEN None ELSE artist
    /\ album' = IF state = IDLE THEN None ELSE album
    /\ media_image' = IF state = IDLE THEN None ELSE media_image
    /\ fresh' = IF state = IDLE THEN {} ELSE fresh
    /\ writes' = 1

Quiet == sent' = <<>> /\ raised' = FALSE

play_started(topic, payload) ==
    /\ Callback(topic) = "play_started"
    /\ last' = Msg("play_started", topic, payload)
    /\ SetState(PLAYING)
    /\ Quiet
    /\ UNCHANGED <<volume_db, min_db, max_db, ui_pending, task, sim, hass>>

\* play_ended setting the status a play-start sets.
play_ended_sets_playing(topic, payload) ==
    /\ Callback(topic) = "play_ended"
    /\ last' = Msg("play_ended", topic, payload)
    /\ SetState(PLAYING)
    /\ Quiet
    /\ UNCHANGED <<volume_db, min_db, max_db, ui_pending, task, sim, hass>>

play_ended(topic, payload) ==
    /\ Callback(topic) = "play_ended"
    /\ last' = Msg("play_ended", topic, payload)
    /\ SetState(PAUSED)
    /\ Quiet
    /\ UNCHANGED <<volume_db, min_db, max_db, ui_pending, task, sim, hass>>

\* active_ended forgetting the volume along with the metadata.
active_ended_clears_volume(topic, payload) ==
    /\ Callback(topic) = "active_ended"
    /\ last' = Msg("active_ended", topic, payload)
    /\ SetState(IDLE)
    /\ volume_db' = None
    /\ Quiet
    /\ UNCHANGED <<min_db, max_db, ui_pending, task, sim, hass>>

active_ended(topic, payload) ==
    /\ Callback(topic) = "active_ended"
    /\ last' = Msg("active_ended", topic, payload)
    /\ SetState(IDLE)
    /\ Quiet
    /\ UNCHANGED <<volume_db, min_db, max_db, ui_pending, task, sim, hass>>

\* The callbacks set_metadata("artist" | "album" | "title") builds: setattr only.
set_metadata(topic, payload) ==
    /\ Callback(topic) \in {"set_metadata_artist", "set_metadata_album", "set_metadata_title"}
    /\ last' = Msg("set_metadata", topic, payload)
    /\ artist' = IF Callback(topic) = "set_metadata_artist" THEN Some(payload) ELSE artist
    /\ album' = IF Callback(topic) = "set_metadata_album" THEN Some(payload) ELSE album
    /\ title' = IF Callback(topic) = "set_metadata_title" THEN Some(payload) ELSE title
    /\ fresh' = fresh \cup {topic}
    /\ writes' = 0
    /\ Quiet
    /\ UNCHANGED <<player_state, media_image, volume_db, min_db, max_db,
                   ui_pending, task, sim, hass>>

artwork_updated(topic, payload) ==
    /\ Callback(topic) = "artwork_updated"
    /\ last' = Msg("artwork_updated", topic, payload)
    /\ media_image' = Some(payload)
    /\ fresh' = fresh \cup {topic}
    /\ writes' = 1
    /\ Quiet
    /\ UNCHANGED <<player_state, title, artist, album, volume_db, min_db, max_db,
                   ui_pending, task, sim, hass>>

\* What `except Exception` catches of what the try block raises.
ExceptException(exc) == exc \in {"ValueError"}

\* The try block with fields 3 and 4 assigned the other way round.
VolumeTry_swapped(payload) ==
    LET r == Parsed(payload)
    IN  [volume_db |-> IF r.ok1 THEN Some(r.volume) ELSE volume_db,
         min_db |-> IF r.ok3 THEN Some(r.highest) ELSE min_db,
         max_db |-> IF r.ok2 THEN Some(r.lowest) ELSE max_db,
         writes |-> IF r.ok3 THEN 1 ELSE 0,
         exc |-> IF r.fields >= 4 /\ ~r.ok3 THEN "ValueError" ELSE "none"]

\* The try block of volume_updated, statement by statement: each float() may
\* raise after the assignments before it have been made.
VolumeTry(payload) ==
    LET r == Parsed(payload)
    IN  [volume_db |-> IF r.ok1 THEN Some(r.volume) ELSE volume_db,
         min_db |-> IF r.ok2 THEN Some(r.lowest) ELSE min_db,
         max_db |-> IF r.ok3 THEN Some(r.highest) ELSE max_db,
         writes |-> IF r.ok3 THEN 1 ELSE 0,
         exc |-> IF r.fields >= 4 /\ ~r.ok3 THEN "ValueError" ELSE "none"]

volume_updated(topic, payload) ==
    /\ Callback(topic) = "volume_updated"
    /\ last' = Msg("volume_updated", topic, payload)
    /\ LET r == VolumeTry(payload)
       IN  /\ volume_db' = r.volume_db
           /\ min_db' = r.min_db
           /\ max_db' = r.max_db
           /\ writes' = r.writes
           /\ raised' = (r.exc # "none" /\ ~ExceptException(r.exc))
    /\ sent' = <<>>
    /\ UNCHANGED <<player_state, title, artist, album, media_image,
                   ui_pending, task, sim, hass, fresh>>

-----------------------------------------------------------------------------
(* Command dispatch                                                        *)

\* _send_command_update_state up to its await: the command is published and
\* the coroutine is suspended in async_publish with the state still to set.
SendCommandUpdateState(op, command, state) ==
    /\ ui_pending = None
    /\ last' = Req(op, 0)
    /\ sent' = <<command>>
    /\ ui_pending' = Some(state)
    /\ writes' = 0
    /\ raised' = FALSE
    /\ UNCHANGED <<entity, task, sim, hass, fresh>>

\* _send_command_update_state after its await: self._set_state(state).
SendCommandResume ==
    /\ ui_pending # None
    /\ last' = Req("_set_state", 0)
    /\ SetState(Val(ui_pending))
    /\ ui_pending' = None
    /\ Quiet
    /\ UNCHANGED <<volume_db, min_db, max_db, task, sim, hass>>

async_media_play == SendCommandUpdateState("async_media_play", "PLAY", PLAYING)

async_media_pause == SendCommandUpdateState("async_media_pause", "PAUSE", PAUSED)

async_media_stop == SendCommandUpdateState("async_media_stop", "STOP", IDLE)

\* The toggle with its test inverted: play when the status is PLAYING.
async_media_play_pause_inverted ==
    IF player_state # PLAYING
    THEN SendCommandUpdateState("async_media_play_pause", "PAUSE", PAUSED)
    ELSE SendCommandUpdateState("async_media_play_pause", "PLAY", PLAYING)

async_media_play_pause ==
    IF player_state = PLAYING
    THEN SendCommandUpdateState("async_media_play_pause", "PAUSE", PAUSED)
    ELSE SendCommandUpdateState("async_media_play_pause", "PLAY", PLAYING)

\* _send_remote_command followed by a state-changed notification.
SendRemoteCommand_notifies(op, command) ==
    /\ last' = Req(op, 0)
    /\ sent' = <<command>>
    /\ writes' = 1
    /\ raised' = FALSE
    /\ UNCHANGED <<entity, ui_pending, task, sim, hass, fresh>>

\* _send_remote_command alone: one published token, no local state touched.
SendRemoteCommand(op, command) ==
    /\ last' = Req(op, 0)
    /\ sent' = <<command>>
    /\ writes' = 0
    /\ raised' = FALSE
    /\ UNCHANGED <<entity, ui_pending, task, sim, hass, fresh>>

async_media_previous_track == SendRemoteCommand("async_media_previous_track", "SKIP_PREVIOUS")

async_media_next_track == SendRemoteCommand("async_media_next_track", "SKIP_NEXT")

async_volume_up == SendRemoteCommand("async_volume_up", "VOLUME_UP")

async_volume_down == SendRemoteCommand("async_volume_down", "VOLUME_DOWN")

-----------------------------------------------------------------------------
(* Volume controller                                                       *)

\* math.log10 of a fraction given in thousandths; the fractions requested are
\* powers of ten (1.0, 0.1, 0.01, 0.001), where log10 is exact.
RECURSIVE Log10(_)
Log10(percent) == IF percent >= 1000 THEN 0 ELSE Log10(percent * 10) - 1

\* _tapered_percent_to_db, result in tenths of a dB (20 dB is 200).
TaperedPercentToDb(percent) ==
    IF max_db = None \/ percent <= 0
    THEN IF min_db # None THEN Val(min_db) ELSE FloorDb
    ELSE Val(max_db) + 200 * Log10(percent)

RECURSIVE Ten(_)
Ten(n) == IF n = 0 THEN 1 ELSE 10 * Ten(n - 1)

\* 10 ** x raises OverflowError when the result exceeds the largest float,
\* 1.797e308: with x = d / 20 and d in tenths of a dB, from 6165.1 dB on.
PowOverflows(d) == d >= 61651

\* max(0.0, min(1.0, 10 ** (d / 20))) for d in tenths of a dB, in thousandths,
\* as the interval lo..hi that holds it: 1.0 for d >= 0, exact at every
\* multiple of 20 dB down to -60 dB, between two powers of ten otherwise.
ClampedPow10(d) ==
    IF d >= 0 THEN [lo |-> 1000, hi |-> 1000]
    ELSE LET n == (0 - d) \div 200
         IN  IF n >= 3 /\ d # -600 THEN [lo |-> 0, hi |-> 1]
             ELSE IF d % 200 = 0 THEN [lo |-> 1000 \div Ten(n), hi |-> 1000 \div Ten(n)]
             ELSE [lo |-> 1000 \div Ten(n + 1), hi |-> 1000 \div Ten(n)]

\* _tapered_db_to_percent: what the call returns or that it raises.
TaperedDbToPercent(db) ==
    IF max_db = None \/ db = None
    THEN [kind |-> "float", lo |-> 0, hi |-> 0]
    ELSE LET d == Val(db) - Val(max_db)
         IN  IF PowOverflows(d)
             THEN [kind |-> "raises", lo |-> 0, hi |-> 0]
             ELSE [kind |-> "float", lo |-> ClampedPow10(d).lo, hi |-> ClampedPow10(d).hi]

\* The volume_level property: None unless the whole envelope is known.
volume_level ==
    IF volume_db = None \/ min_db = None \/ max_db = None
    THEN [kind |-> "none", lo |-> 0, hi |-> 0]
    ELSE TaperedDbToPercent(volume_db)

\* The loop with the tolerance test strict: abs(diff) < tolerance.
LoopHead_strict_tolerance(attempts, target_db, count, dirs) ==
    /\ sv_attempts' = attempts
    /\ sv_target' = Some(target_db)
    /\ IF attempts < max_attempts
       THEN IF volume_db = None
            THEN /\ sv_pc' = "sleep"
                 /\ sv_outcome' = "running"
                 /\ sent' = <<>>
                 /\ sv_count' = count
                 /\ sv_dirs' = dirs
                 /\ raised' = FALSE
            ELSE LET diff == target_db - Val(volume_db)
                     command == IF diff > 0 THEN "VOLUME_UP" ELSE "VOLUME_DOWN"
                 IN  IF Abs(diff) < tolerance
                     THEN /\ sv_pc' = "done"
                          /\ sv_outcome' = "reached"
                          /\ sent' = <<>>
                          /\ sv_count' = count
                          /\ sv_dirs' = dirs
                          /\ raised' = FALSE
                     ELSE /\ sv_pc' = "sleep"
                          /\ sv_outcome' = "running"
                          /\ sent' = <<command>>
                          /\ sv_count' = count + 1
                          /\ sv_dirs' = dirs \cup {command}
                          /\ raised' = FALSE
       ELSE /\ sv_pc' = "done"
            /\ sv_outcome' = "exhausted"
            /\ sent' = <<>>
            /\ sv_count' = count
            /\ sv_dirs' = dirs
            /\ raised' = (volume_db = None)

\* The loop with the direction test inverted: volume up when diff < 0.
LoopHead_inverted(attempts, target_db, count, dirs) ==
    /\ sv_attempts' = attempts
    /\ sv_target' = Some(target_db)
    /\ IF attempts < max_attempts
       THEN IF volume_db = None
            THEN /\ sv_pc' = "sleep"
                 /\ sv_outcome' = "running"
                 /\ sent' = <<>>
                 /\ sv_count' = count
                 /\ sv_dirs' = dirs
                 /\ raised' = FALSE
            ELSE LET diff == target_db - Val(volume_db)
                     command == IF diff < 0 THEN "VOLUME_UP" ELSE "VOLUME_DOWN"
                 IN  IF Abs(diff) <= tolerance
                     THEN /\ sv_pc' = "done"
                          /\ sv_outcome' = "reached"
                          /\ sent' = <<>>
                          /\ sv_count' = count
                          /\ sv_dirs' = dirs
                          /\ raised' = FALSE
                     ELSE /\ sv_pc' = "sleep"
                          /\ sv_outcome' = "running"
                          /\ sent' = <<command>>
                          /\ sv_count' = count + 1
                          /\ sv_dirs' = dirs \cup {command}
                          /\ raised' = FALSE
       ELSE /\ sv_pc' = "done"
            /\ sv_outcome' = "exhausted"
            /\ sent' = <<>>
            /\ sv_count' = count
            /\ sv_dirs' = dirs
            /\ raised' = (volume_db = None)

\* One evaluation of the while loop with `attempts` already counted, up to
\* the next asyncio.sleep or the end of the coroutine. The await of the
\* publish and the sleep that follows it are one suspension: no statement of
\* the coroutine runs between them. count and dirs describe the commands the
\* request has published before this evaluation. The warning of the while's
\* else clause formats self._volume_db with :.2f, which raises on None.
LoopHead(attempts, target_db, count, dirs) ==
    /\ sv_attempts' = attempts
    /\ sv_target' = Some(target_db)
    /\ IF attempts < max_attempts
       THEN IF volume_db = None
            THEN /\ sv_pc' = "sleep"
                 /\ sv_outcome' = "running"
                 /\ sent' = <<>>
                 /\ sv_count' = count
                 /\ sv_dirs' = dirs
                 /\ raised' = FALSE
            ELSE LET diff == target_db - Val(volume_db)
                     command == IF diff > 0 THEN "VOLUME_UP" ELSE "VOLUME_DOWN"
                 IN  IF Abs(diff) <= tolerance
                     THEN /\ sv_pc' = "done"
                          /\ sv_outcome' = "reached"
                          /\ sent' = <<>>
                          /\ sv_count' = count
                          /\ sv_dirs' = dirs
                          /\ raised' = FALSE
                     ELSE /\ sv_pc' = "sleep"
                          /\ sv_outcome' = "running"
                          /\ sent' = <<command>>
                          /\ sv_count' = count + 1
                          /\ sv_dirs' = dirs \cup {command}
                          /\ raised' = FALSE
       ELSE /\ sv_pc' = "done"
            /\ sv_outcome' = "exhausted"
            /\ sent' = <<>>
            /\ sv_count' = count
            /\ sv_dirs' = dirs
            /\ raised' = (volume_db = None)

\* The precondition check without its test of max_db.
PreconditionFails_ignores_max == min_db = None \/ volume_db = None

\* The two early returns of async_set_volume_level.
PreconditionFails == min_db = None \/ max_db = None \/ volume_db = None

\* async_set_volume_level from the call to its first suspension or return.
\* volume is the requested fraction in thousandths. One request runs at a
\* time: a second request's only effects are commands published to the
\* receiver, which reach this one as volume reports.
async_set_volume_level(volume) ==
    /\ sv_pc # "sleep"
    /\ last' = Req("async_set_volume_level", volume)
    /\ IF PreconditionFails
       THEN /\ sv_pc' = "done"
            /\ sv_outcome' = "aborted"
            /\ sv_target' = None
            /\ sv_initial' = None
            /\ sv_attempts' = 0
            /\ sv_count' = 0
            /\ sv_dirs' = {}
            /\ sent' = <<>>
            /\ raised' = FALSE
       ELSE /\ sv_initial' = volume_db
            /\ LoopHead(0, TaperedPercentToDb(volume), 0, {})
    /\ writes' = 0
    /\ sim_requests' = IF sim_step > 0 THEN sim_requests + 1 ELSE sim_requests
    /\ UNCHANGED <<entity, ui_pending, sim_step, hass, fresh>>

\* asyncio.sleep returning to a loop that takes max_db as it is now for its target.
SleepReturns_retargets ==
    /\ sv_pc = "sleep"
    /\ last' = Req("sleep_returns", 0)
    /\ LoopHead(sv_attempts + 1, Val(max_db), sv_count, sv_dirs)
    /\ writes' = 0
    /\ UNCHANGED <<entity, ui_pending, sv_initial, sim, hass, fresh>>

\* asyncio.sleep with attempts left uncounted when it returns.
SleepReturns_no_increment ==
    /\ sv_pc = "sleep"
    /\ last' = Req("sleep_returns", 0)
    /\ LoopHead(sv_attempts, Val(sv_target), sv_count, sv_dirs)
    /\ writes' = 0
    /\ UNCHANGED <<entity, ui_pending, sv_initial, sim, hass, fresh>>

\* asyncio.sleep returns: attempts += 1 and the loop condition again.
SleepReturns ==
    /\ sv_pc = "sleep"
    /\ last' = Req("sleep_returns", 0)
    /\ LoopHead(sv_attempts + 1, Val(sv_target), sv_count, sv_dirs)
    /\ writes' = 0
    /\ UNCHANGED <<entity, ui_pending, sv_initial, sim, hass, fresh>>

-----------------------------------------------------------------------------
(* Addition to and removal from the host                                   *)

\* async_added_to_hass up to the first await of async_subscribe: the base
\* class's hook has returned and _subscribe_to_topics has built its callbacks.
async_added_to_hass ==
    /\ life = "new"
    /\ last' = Req("async_added_to_hass", 0)
    /\ life' = "subscribing"
    /\ writes' = 0
    /\ Quiet
    /\ UNCHANGED <<entity, ui_pending, task, sim, subscriptions, acquired, released, fresh>>

\* The pending async_subscribe returns its handle: it is appended, and the
\* next topic's async_subscribe is awaited or the coroutine returns.
SubscribeReturns ==
    /\ life = "subscribing"
    /\ last' = Req("subscribe_returns", 0)
    /\ LET topic == SubscriptionOrder[Len(subscriptions) + 1]
       IN  /\ acquired' = acquired \cup {topic}
           /\ subscriptions' = Append(subscriptions, topic)
    /\ life' = IF Len(subscriptions) + 1 = Len(SubscriptionOrder) THEN "added" ELSE "subscribing"
    /\ writes' = 0
    /\ Quiet
    /\ UNCHANGED <<entity, ui_pending, task, sim, released, fresh>>

\* The pending async_subscribe raises: nothing catches it, and
\* async_added_to_hass ends with the handles appended so far.
SubscribeRaises ==
    /\ life = "subscribing"
    /\ last' = Req("subscribe_raises", 0)
    /\ life' = "failed"
    /\ writes' = 0
    /\ sent' = <<>>
    /\ raised' = TRUE
    /\ UNCHANGED <<entity, ui_pending, task, sim, subscriptions, acquired, released, fresh>>

\* The removal with the loop starting at the second handle.
async_will_remove_from_hass_skips_first ==
    /\ life \in {"added", "failed"}
    /\ last' = Req("async_will_remove_from_hass", 0)
    /\ released' = released \o (IF subscriptions = <<>> THEN <<>> ELSE Tail(subscriptions))
    /\ life' = "removed"
    /\ writes' = 0
    /\ Quiet
    /\ UNCHANGED <<entity, ui_pending, task, sim, subscriptions, acquired, fresh>>

\* async_will_remove_from_hass: every handle of self._subscriptions is
\* called, in order; the list is left as it is. It runs once the addition
\* has returned or raised.
async_will_remove_from_hass ==
    /\ life \in {"added", "failed"}
    /\ last' = Req("async_will_remove_from_hass", 0)
    /\ released' = released \o subscriptions
    /\ life' = "removed"
    /\ writes' = 0
    /\ Quiet
    /\ UNCHANGED <<entity, ui_pending, task, sim, subscriptions, acquired, fresh>>

-----------------------------------------------------------------------------
(* Spec: the topic router and the transport requests                       *)

Deliver(topic, payload) ==
    \/ play_started(topic, payload)
    \/ play_ended(topic, payload)
    \/ active_ended(topic, payload)
    \/ set_metadata(topic, payload)
    \/ artwork_updated(topic, payload)
    \/ volume_updated(topic, payload)

Transport ==
    \/ async_media_play
    \/ async_media_pause
    \/ async_media_stop
    \/ async_media_play_pause
    \/ async_media_previous_track
    \/ async_media_next_track
    \/ async_volume_up
    \/ async_volume_down
    \/ SendCommandResume

Next ==
    \/ \E topic \in StatusTopics : Deliver(topic, "")
    \/ \E topic \in MetadataTopics : \E payload \in MetaPayloads(topic) : Deliver(topic, payload)
    \/ \E payload \in CoverPayloads : Deliver("COVER", payload)
    \/ \E topic \in volume_topics, payload \in RouterReports : Deliver(topic, payload)
    \/ Transport

Spec == Init /\ [][Next]_vars

-----------------------------------------------------------------------------
(* SpecReport: volume reports alone, over every generated payload          *)

NextReport == \E topic \in volume_topics, payload \in VolumePayloads : volume_updated(topic, payload)

SpecReport == Init /\ [][NextReport]_vars

-----------------------------------------------------------------------------
(* SpecVol: set-volume requests among volume reports and UI requests       *)

NextVol ==
    \/ \E topic \in volume_topics, payload \in LoopReports : volume_updated(topic, payload)
    \/ \E volume \in Fractions : async_set_volume_level(volume)
    \/ SleepReturns
    \/ async_volume_up
    \/ async_volume_down
    \/ async_media_previous_track
    \/ async_media_next_track
    \/ play_started("PLAY_START", "")
    \/ active_ended("ACTIVE_END", "")

SpecVol == Init /\ [][NextVol]_vars

\* asyncio.sleep returns after its delay whenever the event loop runs.
SpecVolFair == SpecVol /\ WF_vars(SleepReturns)

-----------------------------------------------------------------------------
(* SpecSim: set-volume requests against a simulated receiver that answers  *)
(* every volume-up or volume-down command with one report, moved by a      *)
(* fixed step, before the sleeping request looks at the volume again       *)

InitSim ==
    InitEntity /\ InitTask /\ InitTrace /\ Added /\ sim_step \in SimSteps /\ sim_requests = 0

SimFirstReport ==
    /\ volume_db = None
    /\ \E payload \in SimInitialReports : volume_updated("ssnc/pvol", payload)

\* The receiver acts on the command just published and reports its new level.
SimReceiver ==
    /\ sent \in {<<"VOLUME_UP">>, <<"VOLUME_DOWN">>}
    /\ volume_db # None
    /\ LET moved == IF sent = <<"VOLUME_UP">>
                    THEN Val(volume_db) + sim_step
                    ELSE Val(volume_db) - sim_step
       IN  \E topic \in volume_topics : volume_updated(topic, SimReport(moved))

SimRequest ==
    /\ sim_requests < MaxSimRequests
    /\ volume_db # None
    /\ \E volume \in SimFractions : async_set_volume_level(volume)

\* The sleep returns once the report has been delivered.
SimSleepReturns == sent = <<>> /\ SleepReturns

NextSim ==
    \/ SimFirstReport
    \/ SimRequest
    \/ SimReceiver
    \/ SimSleepReturns

SpecSim == InitSim /\ [][NextSim]_vars

-----------------------------------------------------------------------------
(* SpecLife: the entity from construction to removal, with the messages    *)
(* that its subscriptions deliver on the way                               *)

InitLife == InitEntity /\ InitTask /\ InitTrace /\ InitHass /\ sim_step = 0 /\ sim_requests = 0

NextLife ==
    \/ async_added_to_hass
    \/ SubscribeReturns
    \/ SubscribeRaises
    \/ async_will_remove_from_hass
    \/ \E topic \in StatusTopics : Deliver(topic, "")
    \/ Deliver("TITLE", "Song A")
    \/ Deliver("COVER", "JFIF")
    \/ Deliver("volume", "12.0,-15.0,-30.0,0.0")

SpecLife == InitLife /\ [][NextLife]_vars

-----------------------------------------------------------------------------
(* Properties of the volume report handler                                 *)

\* A report as the format describes it: at least four fields, the second,
\* third and fourth numeric.
ReportShape(payload) ==
    LET parts == Split(payload, ",")
        wf == Len(parts) >= 4 /\ \A i \in 2..4 : ~FloatRaises(parts[i])
    IN  [wellformed |-> wf,
         b |-> IF wf THEN Float(parts[2]) ELSE 0,
         c |-> IF wf THEN Float(parts[3]) ELSE 0,
         d |-> IF wf THEN Float(parts[4]) ELSE 0]

ShapeTable == [payload \in AllReports |-> ReportShape(payload)]

Shape(payload) == ShapeTable[payload]

Envelope == <<volume_db, min_db, max_db>>

\* C1: a malformed volume report (fewer than four fields, or a non-numeric
\* second, third or fourth field), on either topic and in any state, does not
\* make the handler raise and leaves volume_db, min_db and max_db as they were.
C1_MalformedLeavesEnvelope ==
    [][(last'.op = "volume_updated" /\ ~Shape(last'.payload).wellformed)
        => (~raised' /\ Envelope' = Envelope)]_vars

\* C2: a well-formed report "a,b,c,d" with d >= c, on either topic and
\* whatever the envelope was, leaves volume_db = b, min_db = c, max_db = d.
C2_WellFormedSetsEnvelope ==
    [][(/\ last'.op = "volume_updated"
        /\ Shape(last'.payload).wellformed
        /\ Shape(last'.payload).d >= Shape(last'.payload).c)
        => (/\ volume_db' = Some(Shape(last'.payload).b)
            /\ min_db' = Some(Shape(last'.payload).c)
            /\ max_db' = Some(Shape(last'.payload).d))]_vars

\* A report on the fallback topic has replaced an envelope with its own values.
C2_Witness ==
    /\ last.op = "volume_updated"
    /\ last.topic = "volume"
    /\ last.payload = "9,+1.5,-30.,.5"
    /\ Envelope = <<Some(15), Some(-300), Some(5)>>

-----------------------------------------------------------------------------
(* Properties of the status and the metadata                               *)

Metadata == <<title, artist, album, media_image>>

Cleared == <<None, None, None, None>>

\* C3: whenever the status becomes Idle, by an active-end message or by the
\* state update of a stop request, title, artist, album and artwork are unset
\* in that same step.
C3_IdleClearsInSameStep ==
    [][(\/ last'.op = "active_ended"
        \/ last'.op = "_set_state" /\ ui_pending = Some(IDLE)
        \/ player_state # IDLE /\ player_state' = IDLE)
        => (player_state' = IDLE /\ Metadata' = Cleared)]_vars

\* A stop request has published its command and is about to set Idle while
\* all four metadata fields are set.
C3_Witness ==
    /\ ui_pending = Some(IDLE)
    /\ player_state = PLAYING
    /\ title # None /\ artist # None /\ album # None /\ media_image # None

\* C4 as claimed: in every reachable state Idle implies that all four
\* metadata fields are unset.
C4_IdleImpliesCleared == player_state = IDLE => Metadata = Cleared

FieldOf(topic) ==
    CASE topic = "TITLE" -> title
      [] topic = "ARTIST" -> artist
      [] topic = "ALBUM" -> album
      [] topic = "COVER" -> media_image

\* C4 as amended: in every reachable Idle state, a metadata field that is set
\* was assigned by a message handled after the status was last set to Idle
\* (or since construction); nothing set before that entry survives it.
C4_IdleHoldsOnlyFreshMetadata ==
    player_state = IDLE =>
        \A topic \in MetadataTopics \cup {"COVER"} :
            FieldOf(topic) # None => topic \in fresh

\* Idle was entered with a title set, and a title message handled while Idle
\* has set it again.
C4_Witness ==
    /\ player_state = IDLE
    /\ last.op = "set_metadata"
    /\ last.topic = "TITLE"
    /\ title = Some("Song B")
    /\ fresh = {"TITLE"}

InboundOps == {"play_started", "play_ended", "active_ended", "set_metadata",
               "artwork_updated", "volume_updated"}

\* C5: every inbound message that changes the visible state (status,
\* metadata, artwork, or the envelope by a well-formed report) makes one
\* state-changed notification in the same handler run.
C5_MutationNotifies ==
    [][(/\ last'.op \in InboundOps
        /\ last'.op = "volume_updated" => Shape(last'.payload).wellformed
        /\ entity' # entity)
        => writes' = 1]_vars

-----------------------------------------------------------------------------
(* Properties of the set-volume request                                    *)

\* C6: a set-volume request made while min_db, max_db or volume_db is
\* unknown returns at once without error: nothing is published, the loop is
\* not entered, and status, metadata and envelope are left as they were.
C6_UnknownEnvelopeAborts ==
    [][(/\ last'.op = "async_set_volume_level"
        /\ (min_db = None \/ max_db = None \/ volume_db = None))
        => (/\ sent' = <<>>
            /\ ~raised'
            /\ sv_pc' = "done"
            /\ sv_outcome' = "aborted"
            /\ sv_attempts' = 0
            /\ entity' = entity)]_vars

\* A request was refused while the player was playing and a report that
\* failed at its fourth field had left volume_db and min_db known and max_db
\* unknown.
C6_Witness ==
    /\ last.op = "async_set_volume_level"
    /\ sv_outcome = "aborted"
    /\ player_state = PLAYING
    /\ volume_db # None
    /\ min_db # None
    /\ max_db = None

\* C7: a request that passed the precondition check terminates whatever
\* reports and UI requests interleave with it: it never runs more than
\* max_attempts iterations nor publishes more than max_attempts commands,
\* it never raises, it ends reached or exhausted, and it does end.
C7_RequestTerminates ==
    /\ [](/\ sv_attempts <= max_attempts
          /\ sv_count <= max_attempts
          /\ (last.op \in {"async_set_volume_level", "sleep_returns"} => ~raised)
          /\ (sv_pc = "done" /\ sv_target # None => sv_outcome \in {"reached", "exhausted"})
          /\ (sv_pc = "sleep" => sv_outcome = "running" /\ sv_attempts < max_attempts))
    /\ (sv_pc = "sleep" ~> sv_pc = "done")

\* A request ran out of attempts after publishing max_attempts commands.
C7_Witness ==
    /\ sv_pc = "done"
    /\ sv_outcome = "exhausted"
    /\ sv_attempts = max_attempts
    /\ sv_count = max_attempts

\* A step that evaluates the loop body: the request's first evaluation, or
\* one after a sleep with attempts left.
LoopIteration ==
    \/ last'.op = "async_set_volume_level" /\ sv_outcome' # "aborted"
    \/ last'.op = "sleep_returns" /\ sv_attempts + 1 < max_attempts

\* C8: an iteration, with diff = target_db - volume_db as read in it, stops
\* and publishes nothing when |diff| <= 0.5 dB, and otherwise publishes
\* exactly one command: volume-up iff target_db > volume_db, else volume-down.
C8_OneCommandInTheRightDirection ==
    [][LoopIteration =>
        IF Abs(Val(sv_target') - Val(volume_db)) <= tolerance
        THEN sent' = <<>> /\ sv_pc' = "done" /\ sv_outcome' = "reached"
        ELSE /\ sv_pc' = "sleep"
             /\ sv_count' = (IF last'.op = "sleep_returns" THEN sv_count ELSE 0) + 1
             /\ sent' = <<IF Val(sv_target') > Val(volume_db)
                          THEN "VOLUME_UP" ELSE "VOLUME_DOWN">>]_vars

\* After a sleep the loop found the volume above the target by more than the
\* tolerance and published a volume-down.
C8_Witness ==
    /\ last.op = "sleep_returns"
    /\ sent = <<"VOLUME_DOWN">>
    /\ Val(volume_db) - Val(sv_target) > tolerance
    /\ sv_attempts > 0

\* The number of commands after which a receiver moving by step per command
\* from initial towards target is first within the tolerance of target.
SmallestK(initial, target, step) ==
    LET dir == IF target > initial THEN 1 ELSE -1
        Within(k) == Abs(target - (initial + dir * k * step)) <= tolerance
    IN  CHOOSE k \in 0..(Abs(target - initial) \div step + 1) :
            Within(k) /\ \A j \in 0..(k - 1) : ~Within(j)

\* A request to the simulated receiver that passed the precondition check
\* has ended.
SimDone == sim_step > 0 /\ sv_pc = "done" /\ sv_initial # None

\* C9: against the simulated receiver, a request whose initial distance
\* |target_db - volume_db| is at most max_attempts * s ends in the reached
\* outcome within max_attempts iterations, also when exactly max_attempts
\* commands are needed.
C9_ReachableTargetIsReached ==
    (/\ SimDone
     /\ Abs(Val(sv_target) - Val(sv_initial)) <= max_attempts * sim_step)
    => (sv_outcome = "reached" /\ sv_attempts <= max_attempts)

\* The direction of a request and the commands it needs.
SimDirection == IF Val(sv_target) > Val(sv_initial) THEN "VOLUME_UP" ELSE "VOLUME_DOWN"

SimNeeded == SmallestK(Val(sv_initial), Val(sv_target), sim_step)

\* C10 as claimed: against the simulated receiver with s <= 1.0 dB, a request
\* publishes commands of one direction only, towards the target, and exactly
\* the smallest number k of them that brings the level within 0.5 dB.
C10_ExactlyKCommands ==
    (SimDone /\ sim_step <= 10)
    => (sv_dirs \subseteq {SimDirection} /\ sv_count = SimNeeded)

\* C10 as amended: the same with the attempt budget: exactly k commands when
\* k <= max_attempts, and max_attempts commands, all of that one direction,
\* when k > max_attempts.
C10_KCommandsWithinBudget ==
    (sim_step > 0 /\ sim_step <= 10 /\ sv_initial # None)
    => /\ sv_dirs \subseteq {SimDirection}
       /\ sv_count <= SimNeeded
       /\ sv_pc = "done" =>
            sv_count = (IF SimNeeded <= max_attempts THEN SimNeeded ELSE max_attempts)

\* Target 0.0 dB from -2.0 dB with a 1.0 dB step: two volume-up commands.
C10_Witness ==
    /\ SimDone
    /\ sim_step = 10
    /\ sv_initial = Some(-20)
    /\ sv_target = Some(0)
    /\ volume_db = Some(0)
    /\ sv_count = 2
    /\ sv_dirs = {"VOLUME_UP"}

\* C11: report loss is tolerated as "unknown, wait and retry". Stated for
\* the case where nothing at all is handled between a command of the loop and
\* the return of the sleep that follows it, so that no fresh report has
\* arrived: that iteration publishes no command and only counts an attempt.
C11_StaleReadingIsNotReused ==
    [][(/\ last.op \in {"async_set_volume_level", "sleep_returns"}
        /\ sent # <<>>
        /\ last'.op = "sleep_returns")
        => (sent' = <<>> /\ sv_attempts' = sv_attempts + 1)]_vars

\* C18: when a request ends in the exhausted outcome (the warning of the
\* while's else clause), the volume_db it last observed is more than 0.5 dB
\* from target_db.
C18_ExhaustedMeansOutOfTolerance ==
    (last.op = "sleep_returns" /\ sv_outcome = "exhausted")
    => Abs(Val(sv_target) - Val(volume_db)) > tolerance

\* C19: a known volume_db, min_db or max_db never becomes unknown again, by
\* any message, UI request or transition to Idle; so a request that passed
\* its precondition check never finds volume_db unknown in an iteration, and
\* every iteration that does not end the request publishes one command.
C19_KnownStaysKnown ==
    /\ [][/\ volume_db # None => volume_db' # None
          /\ min_db # None => min_db' # None
          /\ max_db # None => max_db' # None
          /\ LoopIteration => (volume_db # None /\ (sv_pc' = "sleep" => Len(sent') = 1))
         ]_vars
    /\ [](sv_pc = "sleep" => volume_db # None)

\* The player went Idle while a request slept between two iterations, and
\* the envelope is still known.
C19_Witness ==
    /\ last.op = "active_ended"
    /\ sv_pc = "sleep"
    /\ sv_attempts > 0
    /\ volume_db # None /\ min_db # None /\ max_db # None

\* C20: target_db is computed once, when the request starts, from the
\* requested fraction and the max_db and min_db of that moment; no report
\* handled while the request sleeps changes it, and every later iteration
\* takes its stop test and its direction from that target and the volume_db
\* of the moment.
C20_TargetIsFixed ==
    [][/\ (last'.op = "async_set_volume_level" /\ sv_outcome' # "aborted")
          => sv_target' = Some(TaperedPercentToDb(last'.arg))
       /\ sv_pc = "sleep" => sv_target' = sv_target
       /\ (last'.op = "sleep_returns" /\ sv_attempts + 1 < max_attempts)
          => IF Abs(Val(sv_target) - Val(volume_db)) <= tolerance
             THEN sv_outcome' = "reached" /\ sent' = <<>>
             ELSE sent' = <<IF Val(sv_target) > Val(volume_db)
                            THEN "VOLUME_UP" ELSE "VOLUME_DOWN">>
      ]_vars

\* A request for fraction 1.0 made with max_db = 0.0 keeps its target 0.0
\* after a report has moved the envelope to -40.0 .. -10.0, and its next
\* iteration publishes a volume-up from -25.0.
C20_Witness ==
    /\ last.op = "sleep_returns"
    /\ sv_target = Some(0)
    /\ max_db = Some(-100)
    /\ min_db = Some(-400)
    /\ volume_db = Some(-250)
    /\ sent = <<"VOLUME_UP">>

-----------------------------------------------------------------------------
(* Properties of the command dispatch                                      *)

\* The token each request publishes.
TokenOf(op) ==
    CASE op = "async_media_play" -> "PLAY"
      [] op = "async_media_pause" -> "PAUSE"
      [] op = "async_media_stop" -> "STOP"
      [] op = "async_media_previous_track" -> "SKIP_PREVIOUS"
      [] op = "async_media_next_track" -> "SKIP_NEXT"
      [] op = "async_volume_up" -> "VOLUME_UP"
      [] op = "async_volume_down" -> "VOLUME_DOWN"

FixedTokenOps ==
    {"async_media_play", "async_media_pause", "async_media_stop",
     "async_media_previous_track", "async_media_next_track",
     "async_volume_up", "async_volume_down"}

\* The status a play, pause or stop request sets.
StatusOf(op) ==
    CASE op = "async_media_play" -> PLAYING
      [] op = "async_media_pause" -> PAUSED
      [] op = "async_media_stop" -> IDLE

\* C12: every transport request publishes exactly one token on the remote
\* topic; play, pause and stop then set the status to Playing, Paused and Idle
\* once the publish has returned, whatever messages arrive or do not arrive;
\* the toggle publishes pause and sets Paused when the status is Playing, and
\* publishes play and sets Playing when it is Paused or Idle.
C12_TransportPublishesAndSetsStatus ==
    /\ [][/\ last'.op \in FixedTokenOps => sent' = <<TokenOf(last'.op)>>
          /\ last'.op \in {"async_media_play", "async_media_pause", "async_media_stop"}
              => ui_pending' = Some(StatusOf(last'.op))
          /\ last'.op = "async_media_play_pause"
              => IF player_state = PLAYING
                 THEN sent' = <<"PAUSE">> /\ ui_pending' = Some(PAUSED)
                 ELSE sent' = <<"PLAY">> /\ ui_pending' = Some(PLAYING)
          /\ last'.op = "_set_state"
              => player_state' = Val(ui_pending) /\ ui_pending' = None /\ sent' = <<>>
         ]_vars
    /\ [](ui_pending # None => ENABLED SendCommandResume)

\* A toggle made while Playing, with a title set, has published pause and is
\* about to set Paused.
C12_Witness ==
    /\ last.op = "async_media_play_pause"
    /\ player_state = PLAYING
    /\ title # None
    /\ sent = <<"PAUSE">>
    /\ ui_pending = Some(PAUSED)

StepAndSkipOps ==
    {"async_volume_up", "async_volume_down",
     "async_media_previous_track", "async_media_next_track"}

LoopOps == {"async_set_volume_level", "sleep_returns"}

\* C13: a volume step up or down and a next-track or previous-track request
\* publish one command and leave status, metadata, artwork and envelope as
\* they were, with no state-changed notification; the steps of a set-volume
\* request do the same with at most one command each, and volume_db changes
\* only in the handling of a volume report.
C13_StepsAndSkipsLeaveStateAlone ==
    [][/\ last'.op \in StepAndSkipOps
          => (Len(sent') = 1 /\ entity' = entity /\ writes' = 0 /\ ui_pending' = ui_pending)
       /\ last'.op \in LoopOps
          => (Len(sent') <= 1 /\ entity' = entity /\ writes' = 0)
       /\ volume_db' # volume_db => last'.op = "volume_updated"
      ]_vars

\* The loop has published a volume-up while the envelope was known and the
\* player was playing, and the volume is still what the last report said.
C13_Witness ==
    /\ last.op = "sleep_returns"
    /\ sent = <<"VOLUME_UP">>
    /\ player_state = PLAYING
    /\ volume_db = Some(-250)
    /\ sv_count > 1

-----------------------------------------------------------------------------
(* Properties of the status machine                                        *)

\* The status each status topic sets.
StatusOfTopic(topic) ==
    CASE topic \in {"PLAY_START", "PLAY_RESUME"} -> PLAYING
      [] topic \in {"PLAY_END", "PLAY_FLUSH"} -> PAUSED
      [] topic = "ACTIVE_END" -> IDLE

\* C14: a status message sets the status its topic stands for, whatever the
\* status was; from every state each of the three statuses is one message
\* away; a title message handled while Playing sets the title to its payload,
\* and a set title changes only by a title message or by a step that leaves
\* the status Idle.
C14_StatusMessagesDriveStatus ==
    /\ [][/\ (last'.op \in InboundOps /\ last'.topic \in StatusTopics)
              => player_state' = StatusOfTopic(last'.topic)
          /\ (last'.op = "set_metadata" /\ last'.topic = "TITLE" /\ player_state = PLAYING)
              => (title' = Some(last'.payload) /\ player_state' = PLAYING)
          /\ (title # None /\ title' # title)
              => (\/ last'.op = "set_metadata" /\ last'.topic = "TITLE"
                  \/ player_state' = IDLE /\ title' = None)
         ]_vars
    /\ [](\A topic \in StatusTopics : ENABLED Deliver(topic, ""))

\* Play-start, then title "Song A", then play-end: Paused with the title kept.
C14_Witness ==
    /\ last.op = "play_ended"
    /\ last.topic = "PLAY_FLUSH"
    /\ player_state = PAUSED
    /\ title = Some("Song A")

-----------------------------------------------------------------------------
(* Properties of the envelope                                              *)

\* C15: the level read by the UI is None in every state where volume_db,
\* min_db or max_db is unknown, also after a report that failed partway, and
\* is a number from 0.0 to 1.0 in every state where all three are known.
C15_LevelIsNoneOrAFraction ==
    IF volume_db = None \/ min_db = None \/ max_db = None
    THEN volume_level.kind = "none"
    ELSE /\ volume_level.kind = "float"
         /\ 0 <= volume_level.lo
         /\ volume_level.lo <= volume_level.hi
         /\ volume_level.hi <= 1000

\* C17: in every reachable state where volume_db, min_db and max_db are all
\* known, min_db <= volume_db <= max_db, whatever reports were received on
\* the two volume topics.
C17_VolumeWithinEnvelope ==
    (volume_db # None /\ min_db # None /\ max_db # None)
    => (Val(min_db) <= Val(volume_db) /\ Val(volume_db) <= Val(max_db))

-----------------------------------------------------------------------------
(* Properties of the subscriptions                                         *)

\* C16: a completed addition holds eleven handles, those of the two volume
\* topics and of the nine topics of topic_map; once the removal has run,
\* after a completed addition or after one that failed at any point of the
\* subscription sequence, every handle async_subscribe returned has been
\* called, once, and none is still held by the broker.
C16_RemovalReleasesEveryHandle ==
    /\ life = "added" =>
          /\ Len(subscriptions) = 11
          /\ acquired = volume_topics \cup DOMAIN topic_map
          /\ Cardinality(acquired) = 11
    /\ life = "removed" =>
          /\ acquired \subseteq Range(released)
          /\ Len(released) = Cardinality(acquired)
          /\ Active = {}

\* The addition failed at its fifth subscription, a play-start message had
\* been delivered before that, and the removal has released the four handles.
C16_Witness ==
    /\ life = "removed"
    /\ Len(subscriptions) = 4
    /\ acquired = {"ssnc/pvol", "volume", "PLAY_START", "PLAY_RESUME"}
    /\ Range(released) = acquired
    /\ player_state = PLAYING

=============================================================================
